---- MODULE Spec2Model ----
(***************************************************************************)
(* Model of scripts/00_farm_activations.py: forward hooks on the attention *)
(* blocks of a model append captured activations to a shared list; the     *)
(* driver run_inference walks the dataset in batches, runs the forward     *)
(* pass, persists the captured activations per layer and clears the list;  *)
(* a try/finally removes the hooks.                                        *)
(***************************************************************************)
EXTENDS Integers, Sequences, FiniteSets, TLC

\* ---------------------------------------------------------------- bounds
MaxLayers == 2        \* modules in model.named_modules()
MaxRecords == 5       \* len(dataset)
MaxBatchSize == 2     \* args.batch_size
MaxTime == 2          \* distinct values time.strftime can return
MaxRuns == 2          \* invocations of main on the same storage
MaxRunRecords == 2    \* len(dataset) when main is invoked several times

VARIABLES
    named_modules,        \* model.named_modules(): sequence of modules
    dataset_len,          \* len(dataset)
    batch_size,           \* args.batch_size
    pc,                   \* position of run_inference
    exc,                  \* exception propagating out of the try block
    hooks,                \* handles returned by register_hooks
    forward_hooks,        \* modules that carry a registered forward hook
    removed,              \* number of handle.remove() calls made
    activations,          \* the shared list the hooks append to
    timestamp,            \* run timestamp
    experiment_metadata,  \* the driver's metadata dict
    sample_idx,           \* loop variable of the batch loop
    batch_idx,            \* sample_idx // batch_size
    seq_lengths,          \* second result of prepare_batch
    fwd_i,                \* next module the forward pass runs
    act_i,                \* next record save_batch_activations handles
    dirs,                 \* output directories that exist
    metadata_files,       \* output_dir -> content of metadata.json
    payload_files,        \* <<output_dir, batch_idx>> -> activations_<idx>.pt
    io_log,               \* storage calls that took effect, in order
    visited,              \* offsets the batch loop has sliced, in order
    past_runs             \* earlier invocations: timestamp and storage left

vars == <<named_modules, dataset_len, batch_size, pc, exc, hooks,
          forward_hooks, removed, activations, timestamp,
          experiment_metadata, sample_idx, batch_idx, seq_lengths, fwd_i,
          act_i, dirs, metadata_files, payload_files, io_log, visited,
          past_runs>>

\* ------------------------------------------------------------ the model
ModuleNames == <<"blocks.0", "blocks.1", "blocks.2", "blocks.3">>

\* what a module's forward returns: a tensor, a tuple (tensor, None), a
\* list [tensor, None], or something that holds no tensor: None, or a tuple
\* (None, None)
OutputKinds == {"tensor", "tuple", "list", "none", "tuple_none"}

\* outputs that are neither a tensor nor a tuple or list containing one
MalformedKinds == {"none", "tuple_none"}

\* size of the last axis of the output of the i-th module
OutputDim(i) == 64 * i

ModuleAt(i, t, k) == [name |-> ModuleNames[i], type |-> t, out |-> k,
                      dim |-> OutputDim(i)]

\* a convolution block always returns a tuple; an attention block may return
\* any of the kinds
ModuleChoices(i) ==
    {ModuleAt(i, "ParallelGatedConvBlock", "tuple")}
    \cup {ModuleAt(i, "AttentionBlock", k) : k \in OutputKinds}

Models ==
    UNION {{m \in [1..n -> UNION {ModuleChoices(i) : i \in 1..n}] :
               \A i \in 1..n : m[i] \in ModuleChoices(i)} : n \in 1..MaxLayers}

\* 'AttentionBlock' in str(type(module))
IsAttentionBlock(module) == module.type = "AttentionBlock"

\* ------------------------------------------------------- python values
PyNone == [kind |-> "none"]
PyTensor(t) == [kind |-> "tensor", val |-> t]
PyTuple(items) == [kind |-> "tuple", items |-> items]
PyList(items) == [kind |-> "list", items |-> items]

\* the tensor a module computes for the batch at dataset offset off
RawTensor(module, off) ==
    [layer |-> module.name, offset |-> off, dim |-> module.dim,
     dtype |-> "bfloat16", device |-> "cuda", grad |-> TRUE]

\* the value the module's forward returns to the model
ModuleOutput(module, off) ==
    CASE module.out = "tensor" -> PyTensor(RawTensor(module, off))
      [] module.out = "tuple" ->
             PyTuple(<<PyTensor(RawTensor(module, off)), PyNone>>)
      [] module.out = "list" ->
             PyList(<<PyTensor(RawTensor(module, off)), PyNone>>)
      [] module.out = "none" -> PyNone
      [] module.out = "tuple_none" -> PyTuple(<<PyNone, PyNone>>)

\* activation.to(torch.float32).detach().cpu()
ToFloat32DetachCpu(t) ==
    [t EXCEPT !.dtype = "float32", !.device = "cpu", !.grad = FALSE]

\* variant: a value that is not a tensor is replaced by an empty tensor
HookActivationCoerced(output) ==
    LET v == IF output.kind = "tuple" THEN output.items[1] ELSE output
    IN  IF v.kind = "tensor" THEN v
        ELSE PyTensor([layer |-> "", offset |-> 0, dim |-> 0,
                       dtype |-> "float32", device |-> "cpu",
                       grad |-> FALSE])

\* hook_fn, lines 45-48: the value whose .to() is called
HookActivation(output) ==
    IF output.kind = "tuple" THEN output.items[1] ELSE output

\* .to() exists on tensors only
HasTo(value) == value.kind = "tensor"

\* hook_fn, lines 50-53: the record appended to activations
HookRecord(name, output) ==
    [name |-> name, output |-> ToFloat32DetachCpu(HookActivation(output).val)]

\* register_hooks: the modules that get a hook, in named_modules order
RECURSIVE HookedFrom(_, _)
HookedFrom(mods, i) ==
    IF i > Len(mods) THEN <<>>
    ELSE (IF IsAttentionBlock(mods[i]) THEN <<mods[i].name>> ELSE <<>>)
         \o HookedFrom(mods, i + 1)

register_hooks(mods) == HookedFrom(mods, 1)

SeqRange(s) == {s[i] : i \in 1..Len(s)}

\* ------------------------------------------------------------- driver
\* experiment_metadata, lines 95-103
ExperimentMetadata(bs, ts) ==
    [data_dir |-> "outputs", dataset_split |-> "sample",
     dataset_subsplit |-> "validation", batch_size |-> bs,
     max_seq_length |-> 8192, base_model |-> "evo-1-8k-base",
     timestamp |-> ts]

\* variant: a range that stops before a short last batch
RangeDropsShortBatch(s, n, b) == s + b <= n

\* range(0, len(dataset), batch_size) still has the element s
RangeHasNext(s, n, b) == s < n

\* end of the slice dataset[s : s + b]
SliceEnd(s, b, n) == IF s + b < n THEN s + b ELSE n

\* variant: the offset itself used as the batch index
BatchIdxIsOffset(s, b) == s

\* batch_idx = sample_idx // args.batch_size
BatchIdx(s, b) == s \div b

\* true token count of dataset record r, as prepare_batch reports it
RecordLen(r) == r + 1

\* seq_lengths of prepare_batch for dataset[lo : hi]
PrepareBatch(lo, hi) == [i \in 1..(hi - lo) |-> RecordLen(lo + i - 1)]

\* variant: the exception is noted and the loop goes back to its head
RaiseAndContinue(e) == pc' = "for" /\ exc' = e

\* variant: the exception leaves run_inference without the finally clause
RaiseSkipsFinally(e) == pc' = "raised" /\ exc' = e

\* leaving the try block with exception e: the finally clause runs next
Raise(e) == pc' = "finally" /\ exc' = e

\* -------------------------------------------------------- persistence
\* variant: a destination that leaves the run timestamp out
OutputDirNoTimestamp(name, ts) == <<name, 0>>

\* output_dir of save_batch_activations; data_dir, dataset_name and
\* model_name are the same for every record of a run
OutputDir(name, ts) == <<name, ts>>

\* variant: the existence check always answers yes
IsMetadataSavedAlways(d) == TRUE

\* variant: the existence check always answers no
IsMetadataSavedNever(d) == FALSE

\* Path.exists(output_dir / 'metadata.json')
IsMetadataSaved(d) == d \in DOMAIN metadata_files

\* variant: the two keys are set only when the dict does not have them yet
SaveMetadataDocSetDefault(em, act) ==
    [k \in DOMAIN em \cup {"module_name", "embed_dim"} |->
        IF k \in DOMAIN em THEN em[k]
        ELSE IF k = "module_name" THEN act.name ELSE act.output.dim]

\* save_metadata, lines 74-75: the dict after the two assignments
SaveMetadataDoc(em, act) ==
    [k \in DOMAIN em \cup {"module_name", "embed_dim"} |->
        CASE k = "module_name" -> act.name
          [] k = "embed_dim" -> act.output.dim
          [] OTHER -> em[k]]

\* variant: the error is swallowed and the loop over the records goes on
OnPersistenceErrorSkip == pc' = "save" /\ exc' = exc /\ act_i' = act_i + 1

\* a directory creation or file write failed: the error propagates
OnPersistenceError == Raise("OSError") /\ UNCHANGED act_i

\* variant: the list is left as it is
ClearedNot(acts) == acts

\* activations.clear()
Cleared(acts) == <<>>

LogEntry(op, d) ==
    [op |-> op, dir |-> d, idx |-> batch_idx, offset |-> sample_idx]

\* values time.strftime can return now: the clock never runs backwards, and
\* two invocations may fall into the same second
ClockValues ==
    {t \in 1..MaxTime :
        \A i \in 1..Len(past_runs) : past_runs[i].timestamp <= t}

\* ------------------------------------------------------------ actions
Init ==
    /\ named_modules \in Models
    /\ dataset_len \in 0..MaxRecords
    /\ batch_size \in 0..MaxBatchSize
    /\ pc = "setup"
    /\ exc = "none"
    /\ hooks = <<>>
    /\ forward_hooks = {}
    /\ removed = 0
    /\ activations = <<>>
    /\ timestamp = 0
    /\ experiment_metadata = <<>>
    /\ sample_idx = 0
    /\ batch_idx = 0
    /\ seq_lengths = <<>>
    /\ fwd_i = 1
    /\ act_i = 1
    /\ dirs = {}
    /\ metadata_files = <<>>
    /\ payload_files = <<>>
    /\ io_log = <<>>
    /\ visited = <<>>
    /\ past_runs = <<>>

\* lines 80-103: hooks registered, timestamp taken, metadata dict built
Setup ==
    /\ pc = "setup"
    /\ hooks' = register_hooks(named_modules)
    /\ forward_hooks' = SeqRange(register_hooks(named_modules))
    /\ \E ts \in ClockValues :
          /\ timestamp' = ts
          /\ experiment_metadata' = ExperimentMetadata(batch_size, ts)
    /\ pc' = "range"
    /\ UNCHANGED <<past_runs,
                   named_modules, dataset_len, batch_size, exc, removed,
                   activations, sample_idx, batch_idx, seq_lengths, fwd_i,
                   act_i, dirs, metadata_files, payload_files, io_log,
                   visited>>

\* line 107: range(0, len(dataset), args.batch_size); a zero step raises
EnterLoop ==
    /\ pc = "range"
    /\ IF batch_size = 0 THEN Raise("ValueError")
       ELSE pc' = "for" /\ exc' = exc
    /\ sample_idx' = 0
    /\ UNCHANGED <<past_runs,
                   named_modules, dataset_len, batch_size, hooks,
                   forward_hooks, removed, activations, timestamp,
                   experiment_metadata, batch_idx, seq_lengths, fwd_i,
                   act_i, dirs, metadata_files, payload_files, io_log,
                   visited>>

\* lines 107-109: next element of the range, slice, batch index; the loop
\* ends normally when the range is exhausted
ForNext ==
    /\ pc = "for"
    /\ IF RangeHasNext(sample_idx, dataset_len, batch_size)
       THEN /\ pc' = "prepare"
            /\ batch_idx' = BatchIdx(sample_idx, batch_size)
            /\ visited' = Append(visited, sample_idx)
       ELSE /\ pc' = "finally"
            /\ UNCHANGED <<batch_idx, visited>>
    /\ UNCHANGED <<past_runs,
                   named_modules, dataset_len, batch_size, exc, hooks,
                   forward_hooks, removed, activations, timestamp,
                   experiment_metadata, sample_idx, seq_lengths, fwd_i,
                   act_i, dirs, metadata_files, payload_files, io_log>>

\* lines 112-118: prepare_batch returns
Prepare ==
    /\ pc = "prepare"
    /\ seq_lengths' = PrepareBatch(sample_idx,
                          SliceEnd(sample_idx, batch_size, dataset_len))
    /\ pc' = "forward"
    /\ fwd_i' = 1
    /\ UNCHANGED <<past_runs,
                   named_modules, dataset_len, batch_size, exc, hooks,
                   forward_hooks, removed, activations, timestamp,
                   experiment_metadata, sample_idx, batch_idx, act_i, dirs,
                   metadata_files, payload_files, io_log, visited>>

\* lines 112-118: prepare_batch raises
PrepareFails ==
    /\ pc = "prepare"
    /\ Raise("DataPreparationError")
    /\ UNCHANGED <<past_runs,
                   named_modules, dataset_len, batch_size, hooks,
                   forward_hooks, removed, activations, timestamp,
                   experiment_metadata, sample_idx, batch_idx, seq_lengths,
                   fwd_i, act_i, dirs, metadata_files, payload_files,
                   io_log, visited>>

\* line 122: the forward pass runs its next module; a registered hook fires
\* (lines 43-53) and raises when the value has no .to(); after the last
\* module the forward call returns and save_batch_activations is entered
ForwardModule ==
    /\ pc = "forward"
    /\ fwd_i <= Len(named_modules)
    /\ LET module == named_modules[fwd_i]
           output == ModuleOutput(module, sample_idx)
           fires == module.name \in forward_hooks
           last == fwd_i = Len(named_modules)
       IN  IF fires /\ ~HasTo(HookActivation(output))
           THEN /\ Raise("AttributeError")
                /\ UNCHANGED <<activations, fwd_i, act_i>>
           ELSE /\ activations' =
                      IF fires
                      THEN Append(activations, HookRecord(module.name, output))
                      ELSE activations
                /\ fwd_i' = fwd_i + 1
                /\ pc' = IF last THEN "save" ELSE "forward"
                /\ act_i' = IF last THEN 1 ELSE act_i
                /\ exc' = exc
    /\ UNCHANGED <<past_runs,
                   named_modules, dataset_len, batch_size, hooks,
                   forward_hooks, removed, timestamp, experiment_metadata,
                   sample_idx, batch_idx, seq_lengths, dirs, metadata_files,
                   payload_files, io_log, visited>>

\* line 122: the forward pass raises inside a module (out of memory, ...)
ForwardFails ==
    /\ pc = "forward"
    /\ fwd_i <= Len(named_modules)
    /\ Raise("RuntimeError")
    /\ UNCHANGED <<past_runs,
                   named_modules, dataset_len, batch_size, hooks,
                   forward_hooks, removed, activations, timestamp,
                   experiment_metadata, sample_idx, batch_idx, seq_lengths,
                   fwd_i, act_i, dirs, metadata_files, payload_files,
                   io_log, visited>>

\* lines 61-66 for the record activations[act_i]: directory created,
\* metadata.json written when it does not exist yet
SaveAct ==
    /\ pc = "save"
    /\ act_i <= Len(activations)
    /\ LET act == activations[act_i]
           d == OutputDir(act.name, timestamp)
           doc == SaveMetadataDoc(experiment_metadata, act)
       IN  /\ dirs' = dirs \cup {d}
           /\ IF IsMetadataSaved(d)
              THEN /\ io_log' = Append(io_log, LogEntry("mkdir", d))
                   /\ UNCHANGED <<experiment_metadata, metadata_files>>
              ELSE /\ experiment_metadata' = doc
                   /\ metadata_files' =
                          (d :> [doc |-> doc, complete |-> TRUE])
                          @@ metadata_files
                   /\ io_log' = io_log \o <<LogEntry("mkdir", d),
                                            LogEntry("metadata", d)>>
    /\ pc' = "torch_save"
    /\ UNCHANGED <<past_runs,
                   named_modules, dataset_len, batch_size, exc, hooks,
                   forward_hooks, removed, activations, timestamp,
                   sample_idx, batch_idx, seq_lengths, fwd_i, act_i,
                   payload_files, visited>>

\* line 63: output_dir.mkdir raises
MkdirFails ==
    /\ pc = "save"
    /\ act_i <= Len(activations)
    /\ OnPersistenceError
    /\ UNCHANGED <<past_runs,
                   named_modules, dataset_len, batch_size, hooks,
                   forward_hooks, removed, activations, timestamp,
                   experiment_metadata, sample_idx, batch_idx, seq_lengths,
                   fwd_i, dirs, metadata_files, payload_files, io_log,
                   visited>>

\* lines 63-66, 74-77: the directory is created, the dict is updated, then
\* open() raises (no file) or json.dump raises (a truncated file is left)
MetadataWriteFails ==
    /\ pc = "save"
    /\ act_i <= Len(activations)
    /\ LET act == activations[act_i]
           d == OutputDir(act.name, timestamp)
           doc == SaveMetadataDoc(experiment_metadata, act)
       IN  /\ ~IsMetadataSaved(d)
           /\ dirs' = dirs \cup {d}
           /\ experiment_metadata' = doc
           /\ \/ /\ metadata_files' = metadata_files
                 /\ io_log' = Append(io_log, LogEntry("mkdir", d))
              \/ /\ metadata_files' =
                        (d :> [doc |-> doc, complete |-> FALSE])
                        @@ metadata_files
                 /\ io_log' = io_log \o <<LogEntry("mkdir", d),
                                          LogEntry("metadata", d)>>
    /\ OnPersistenceError
    /\ UNCHANGED <<past_runs,
                   named_modules, dataset_len, batch_size, hooks,
                   forward_hooks, removed, activations, timestamp,
                   sample_idx, batch_idx, seq_lengths, fwd_i,
                   payload_files, visited>>

\* lines 68-69: torch.save writes activations_<batch_idx>.pt
TorchSave ==
    /\ pc = "torch_save"
    /\ LET act == activations[act_i]
           d == OutputDir(act.name, timestamp)
       IN  /\ payload_files' =
                  (<<d, batch_idx>> :> [output |-> act.output,
                                        seq_lengths |-> seq_lengths,
                                        complete |-> TRUE])
                  @@ payload_files
           /\ io_log' = Append(io_log, LogEntry("payload", d))
    /\ act_i' = act_i + 1
    /\ pc' = "save"
    /\ UNCHANGED <<past_runs,
                   named_modules, dataset_len, batch_size, exc, hooks,
                   forward_hooks, removed, activations, timestamp,
                   experiment_metadata, sample_idx, batch_idx, seq_lengths,
                   fwd_i, dirs, metadata_files, visited>>

\* line 69: torch.save raises before the file exists, or leaves a truncated
\* file behind
TorchSaveFails ==
    /\ pc = "torch_save"
    /\ LET act == activations[act_i]
           d == OutputDir(act.name, timestamp)
       IN  \/ UNCHANGED <<payload_files, io_log>>
           \/ /\ payload_files' =
                     (<<d, batch_idx>> :> [output |-> act.output,
                                           seq_lengths |-> seq_lengths,
                                           complete |-> FALSE])
                     @@ payload_files
              /\ io_log' = Append(io_log, LogEntry("payload", d))
    /\ OnPersistenceError
    /\ UNCHANGED <<past_runs,
                   named_modules, dataset_len, batch_size, hooks,
                   forward_hooks, removed, activations, timestamp,
                   experiment_metadata, sample_idx, batch_idx, seq_lengths,
                   fwd_i, dirs, metadata_files, visited>>

\* lines 125-128 and the loop step: save_batch_activations has returned,
\* the list is cleared, the range advances
Clear ==
    /\ pc = "save"
    /\ act_i > Len(activations)
    /\ activations' = Cleared(activations)
    /\ sample_idx' = sample_idx + batch_size
    /\ pc' = "for"
    /\ UNCHANGED <<past_runs,
                   named_modules, dataset_len, batch_size, exc, hooks,
                   forward_hooks, removed, timestamp, experiment_metadata,
                   batch_idx, seq_lengths, fwd_i, act_i, dirs,
                   metadata_files, payload_files, io_log, visited>>

\* a KeyboardInterrupt arrives while the try block runs
Interrupt ==
    /\ pc \in {"range", "for", "prepare", "forward", "save", "torch_save"}
    /\ Raise("KeyboardInterrupt")
    /\ UNCHANGED <<past_runs,
                   named_modules, dataset_len, batch_size, hooks,
                   forward_hooks, removed, activations, timestamp,
                   experiment_metadata, sample_idx, batch_idx, seq_lengths,
                   fwd_i, act_i, dirs, metadata_files, payload_files,
                   io_log, visited>>

\* lines 130-133: every handle is removed; the exception, if any, goes on
Finally ==
    /\ pc = "finally"
    /\ forward_hooks' = forward_hooks \ SeqRange(hooks)
    /\ removed' = removed + Len(hooks)
    /\ pc' = IF exc = "none" THEN "done" ELSE "raised"
    /\ UNCHANGED <<past_runs,
                   named_modules, dataset_len, batch_size, exc, hooks,
                   activations, timestamp, experiment_metadata, sample_idx,
                   batch_idx, seq_lengths, fwd_i, act_i, dirs,
                   metadata_files, payload_files, io_log, visited>>

Next ==
    \/ Setup
    \/ EnterLoop
    \/ ForNext
    \/ Prepare
    \/ PrepareFails
    \/ ForwardModule
    \/ ForwardFails
    \/ SaveAct
    \/ MkdirFails
    \/ MetadataWriteFails
    \/ TorchSave
    \/ TorchSaveFails
    \/ Clear
    \/ Interrupt
    \/ Finally

Spec == Init /\ [][Next]_vars

\* lines 135-137: main is invoked again, in a new process, on the storage the
\* earlier invocations left
NewRun ==
    /\ pc \in {"done", "raised"}
    /\ Len(past_runs) < MaxRuns - 1
    /\ past_runs' = Append(past_runs,
           [timestamp |-> timestamp, hooks |-> hooks, dirs |-> dirs,
            metadata_files |-> metadata_files,
            payload_files |-> payload_files, log_len |-> Len(io_log)])
    /\ pc' = "setup"
    /\ exc' = "none"
    /\ hooks' = <<>>
    /\ forward_hooks' = {}
    /\ removed' = 0
    /\ activations' = <<>>
    /\ timestamp' = 0
    /\ experiment_metadata' = <<>>
    /\ sample_idx' = 0
    /\ batch_idx' = 0
    /\ seq_lengths' = <<>>
    /\ fwd_i' = 1
    /\ act_i' = 1
    /\ visited' = <<>>
    /\ UNCHANGED <<named_modules, dataset_len, batch_size, dirs,
                   metadata_files, payload_files, io_log>>

NextRuns == Next \/ NewRun

\* the arguments and the model are the same for every invocation; the
\* dataset is kept short because every further invocation multiplies the
\* storage states it can start from
InitRuns == Init /\ dataset_len <= MaxRunRecords

\* several invocations of main, one after the other
SpecRuns == InitRuns /\ [][NextRuns]_vars

\* ------------------------------------------------- observation helpers
\* positions of the storage calls of kind op on directory d
LogIdxs(op, d) ==
    {i \in 1..Len(io_log) : io_log[i].op = op /\ io_log[i].dir = d}

\* batch indices of the payload files present in directory d
PayloadIdxs(d) == {p[2] : p \in {q \in DOMAIN payload_files : q[1] = d}}

\* ceil(n / b)
CeilDiv(n, b) == (n + b - 1) \div b

Terminated == pc \in {"done", "raised"}

\* ------------------------------------------------------------- claims

\* C1: the activation buffer is empty in every state reached after the
\* persistence step of a batch has ended, whether it succeeded (the loop is
\* back at its head, or has ended) or a write failure aborted the run.
C1_BufferClearedAfterPersistence ==
    (\/ pc \in {"for", "prepare"} /\ visited # <<>>
     \/ pc \in {"finally", "done", "raised"} /\ exc = "OSError")
    => activations = <<>>

\* C2: once run_inference has terminated, by normal completion or by any
\* exception out of the batch loop, as many handles have been removed as
\* register_hooks installed and no forward hook is left on the model.
C2_HookSymmetry ==
    Terminated => removed = Len(hooks) /\ forward_hooks = {}

C2_Witness ==
    /\ pc = "raised"
    /\ exc = "OSError"
    /\ Len(hooks) = 2
    /\ removed = 2
    /\ batch_idx >= 1

\* C3: metadata.json of a destination is never written more than once; it
\* has been written exactly once as soon as the first record for that layer
\* got past the metadata step, and that write happened on the first batch
\* that touched the destination; no later step changes or removes the
\* module_name and embed_dim it stores.
C3_MetadataOnceState ==
    \A d \in dirs :
        /\ Cardinality(LogIdxs("metadata", d)) <= 1
        /\ (d \in DOMAIN metadata_files
               <=> Cardinality(LogIdxs("metadata", d)) = 1)
        /\ LogIdxs("payload", d) # {} => d \in DOMAIN metadata_files
        /\ \A i \in LogIdxs("metadata", d) : \A j \in LogIdxs("mkdir", d) :
               io_log[i].idx <= io_log[j].idx

C3_MetadataKept ==
    \A d \in DOMAIN metadata_files :
        /\ d \in DOMAIN metadata_files'
        /\ metadata_files'[d].doc.module_name
               = metadata_files[d].doc.module_name
        /\ metadata_files'[d].doc.embed_dim = metadata_files[d].doc.embed_dim

C3_MetadataOnce == []C3_MetadataOnceState /\ [][C3_MetadataKept]_vars

C3_Witness ==
    \E d \in dirs :
        /\ d \in DOMAIN metadata_files
        /\ Cardinality(LogIdxs("mkdir", d)) >= 3
        /\ Cardinality(PayloadIdxs(d)) >= 2
        /\ Cardinality(dirs) = 2

\* C4: every payload file carries the batch index offset // batch_size of
\* the batch whose forward pass produced its tensor, and the payload writes
\* to one destination have strictly increasing batch indices, so no
\* (destination, index) file is written twice.
C4_NoIndexCollision ==
    /\ \A i \in 1..Len(io_log) :
           io_log[i].op = "payload"
               => io_log[i].idx = io_log[i].offset \div batch_size
    /\ \A p \in DOMAIN payload_files :
           /\ payload_files[p].output.offset \div batch_size = p[2]
           /\ payload_files[p].output.layer = p[1][1]
    /\ \A i, j \in 1..Len(io_log) :
           (/\ i < j
            /\ io_log[i].op = "payload"
            /\ io_log[j].op = "payload"
            /\ io_log[i].dir = io_log[j].dir)
               => io_log[i].idx < io_log[j].idx

C4_Witness ==
    /\ batch_size = 2
    /\ \E d \in dirs : PayloadIdxs(d) = {0, 1, 2}
    /\ Cardinality(dirs) = 2

\* C5: with no layer of the target kind the run raises a configuration
\* error before the first batch is sliced and writes no file.
C5_NoTargetLayerRaisesBeforeIteration ==
    (pc # "setup" /\ hooks = <<>> /\ batch_size >= 1)
    => /\ visited = <<>>
       /\ dirs = {}
       /\ metadata_files = <<>>
       /\ payload_files = <<>>
       /\ Terminated => exc = "ConfigurationError"

\* C6: after the persist-then-clear step of a batch the buffer has length 0:
\* the loop head, batch preparation and the start of every forward pass see
\* an empty buffer.
C6_BufferEmptyAfterPersist ==
    (pc \in {"for", "prepare"} \/ (pc = "forward" /\ fwd_i = 1))
    => Len(activations) = 0

C6_Witness ==
    /\ pc = "forward"
    /\ fwd_i = 1
    /\ batch_idx >= 1
    /\ Len(hooks) = 2
    /\ \E d \in dirs : PayloadIdxs(d) # {}
    /\ activations = <<>>

\* C7: in every state, aborted runs included, the batch indices of the
\* payload files of each destination are 0 .. k-1 for some k.
C7_NoIndexGaps ==
    \A d \in dirs : PayloadIdxs(d) = 0..(Cardinality(PayloadIdxs(d)) - 1)

C7_Witness ==
    /\ pc = "raised"
    /\ exc \in {"OSError", "RuntimeError", "DataPreparationError"}
    /\ \E d, e \in dirs :
           /\ Cardinality(PayloadIdxs(d)) >= 2
           /\ Cardinality(PayloadIdxs(e)) < Cardinality(PayloadIdxs(d))

\* C8: a run that ends without an error has sliced the offsets
\* 0, b, 2b, ... below N in this order, has made its storage calls batch
\* after batch, and leaves in the destination of every hooked layer exactly
\* the payload files 0 .. ceil(N/b)-1, file k holding the sequence lengths of
\* the records k*b .. min(k*b + b, N) - 1.
C8_BatchesInOrder ==
    pc = "done" =>
        LET nb == CeilDiv(dataset_len, batch_size)
        IN  /\ batch_size >= 1
            /\ visited = [i \in 1..nb |-> (i - 1) * batch_size]
            /\ \A i, j \in 1..Len(io_log) :
                   i < j => io_log[i].idx <= io_log[j].idx
            /\ \A h \in 1..Len(hooks) :
                   LET d == <<hooks[h], timestamp>>
                   IN  /\ PayloadIdxs(d) = 0..(nb - 1)
                       /\ Cardinality(LogIdxs("payload", d)) = nb
                       /\ \A k \in PayloadIdxs(d) :
                              LET f == payload_files[<<d, k>>]
                                  lo == k * batch_size
                                  hi == IF lo + batch_size < dataset_len
                                        THEN lo + batch_size
                                        ELSE dataset_len
                              IN  /\ f.complete
                                  /\ f.output.offset = lo
                                  /\ Len(f.seq_lengths) = hi - lo
                                  /\ Len(f.seq_lengths) >= 1

C8_Witness ==
    /\ pc = "done"
    /\ dataset_len = 5
    /\ batch_size = 2
    /\ visited = <<0, 2, 4>>
    /\ Len(hooks) = 2
    /\ \A h \in 1..Len(hooks) :
           /\ PayloadIdxs(<<hooks[h], timestamp>>) = {0, 1, 2}
           /\ Len(payload_files[<<<<hooks[h], timestamp>>, 2>>].seq_lengths)
                  = 1

\* C9: the metadata document of every destination names that destination's
\* layer and records the last-axis size of the tensors captured from it.
C9_ShapeFidelity ==
    \A d \in DOMAIN metadata_files :
        LET doc == metadata_files[d].doc
        IN  /\ doc.module_name = d[1]
            /\ \E i \in 1..Len(named_modules) :
                   /\ named_modules[i].name = d[1]
                   /\ doc.embed_dim = named_modules[i].dim
            /\ \A k \in PayloadIdxs(d) :
                   doc.embed_dim = payload_files[<<d, k>>].output.dim

C9_Witness ==
    \E d, e \in DOMAIN metadata_files :
        /\ d # e
        /\ metadata_files[d].doc.embed_dim # metadata_files[e].doc.embed_dim
        /\ PayloadIdxs(d) # {}
        /\ PayloadIdxs(e) # {}

\* C10: the driver's metadata dict stays what it was when it was created:
\* its seven fields, unchanged, and no module_name or embed_dim.
C10_RunMetadataImmutable ==
    pc # "setup" =>
        /\ experiment_metadata = ExperimentMetadata(batch_size, timestamp)
        /\ DOMAIN experiment_metadata
               = {"data_dir", "dataset_split", "dataset_subsplit",
                  "batch_size", "max_seq_length", "base_model", "timestamp"}

\* the storage as the latest earlier invocation left it
LastRun == past_runs[Len(past_runs)]

\* the current invocation's timestamp differs from every earlier one
FreshTimestamp ==
    /\ past_runs # <<>>
    /\ pc # "setup"
    /\ \A i \in 1..Len(past_runs) : past_runs[i].timestamp # timestamp

\* C11: a run whose timestamp differs from the earlier runs' writes only to
\* destinations of its own timestamp, none of which an earlier run used;
\* every file the earlier runs left is still there with the same content;
\* each of its destinations gets a metadata document written by this run and
\* payload indices 0, 1, ... of its own.
C11_RunIsolation ==
    FreshTimestamp =>
        /\ \A d \in LastRun.dirs : d \in dirs
        /\ \A d \in DOMAIN LastRun.metadata_files :
               /\ d \in DOMAIN metadata_files
               /\ metadata_files[d] = LastRun.metadata_files[d]
        /\ \A q \in DOMAIN LastRun.payload_files :
               /\ q \in DOMAIN payload_files
               /\ payload_files[q] = LastRun.payload_files[q]
        /\ \A i \in (LastRun.log_len + 1)..Len(io_log) :
               /\ io_log[i].dir \notin LastRun.dirs
               /\ io_log[i].dir[2] = timestamp
        /\ \A d \in dirs \ LastRun.dirs :
               /\ d[2] = timestamp
               /\ PayloadIdxs(d) = 0..(Cardinality(PayloadIdxs(d)) - 1)
               /\ PayloadIdxs(d) # {} =>
                      /\ d \in DOMAIN metadata_files
                      /\ metadata_files[d].doc.timestamp = timestamp
                      /\ \E i \in (LastRun.log_len + 1)..Len(io_log) :
                             io_log[i].op = "metadata" /\ io_log[i].dir = d
        /\ \A h \in 1..Len(hooks) : \A i \in 1..Len(past_runs) :
               <<hooks[h], timestamp>>
                   \notin {<<past_runs[i].hooks[g], past_runs[i].timestamp>> :
                              g \in 1..Len(past_runs[i].hooks)}

C11_Witness ==
    /\ Len(past_runs) = 1
    /\ pc = "done"
    /\ timestamp # past_runs[1].timestamp
    /\ \E h \in 1..Len(hooks) :
           LET old == <<hooks[h], past_runs[1].timestamp>>
               new == <<hooks[h], timestamp>>
           IN  /\ old \in DOMAIN metadata_files
               /\ new \in DOMAIN metadata_files
               /\ metadata_files[old] # metadata_files[new]
               /\ PayloadIdxs(old) = {0, 1}
               /\ PayloadIdxs(new) = {0, 1}

\* the hooked modules whose output holds no tensor
MalformedHooked ==
    {i \in 1..Len(named_modules) :
        /\ named_modules[i].name \in SeqRange(hooks)
        /\ named_modules[i].out \in MalformedKinds}

\* C12: when a hooked layer's output is neither a tensor nor a tuple or list
\* containing one, no record of that layer ever enters the buffer or the
\* storage, the forward pass of the first batch never completes (nothing of
\* that batch is written), and a run that has started a batch ends with an
\* error.
C12_MalformedOutputIsFatal ==
    /\ \A i \in MalformedHooked :
           /\ \A k \in 1..Len(activations) :
                  activations[k].name # named_modules[i].name
           /\ \A q \in DOMAIN payload_files :
                  q[1][1] # named_modules[i].name
    /\ MalformedHooked # {} =>
           /\ pc \notin {"save", "torch_save", "done"} \/ visited = <<>>
           /\ Len(visited) <= 1
           /\ dirs = {} /\ metadata_files = <<>> /\ payload_files = <<>>
           /\ io_log = <<>>
           /\ (Terminated /\ visited # <<>>) => pc = "raised"
           /\ exc = "AttributeError" =>
                  /\ fwd_i \in MalformedHooked
                     \/ named_modules[fwd_i].out = "list"
                  /\ \A i \in MalformedHooked : fwd_i <= i

C12_Witness ==
    /\ pc = "raised"
    /\ exc = "AttributeError"
    /\ fwd_i \in MalformedHooked
    /\ named_modules[fwd_i].out = "tuple_none"
    /\ Len(activations) = 1
    /\ visited = <<0>>
    /\ io_log = <<>>

\* C13: once a step of the try block has raised, the run is at the finally
\* clause or past it; the only step that follows is the hook removal, which
\* keeps the exception; no batch is sliced, prepared, forwarded or persisted
\* any more, and nothing is written.
C13_FailedStateIsFinal == exc # "none" => pc \in {"finally", "raised"}

C13_AfterFailureOnlyCleanup ==
    exc # "none" =>
        /\ pc = "finally"
        /\ pc' = "raised"
        /\ exc' = exc
        /\ removed' = Len(hooks)
        /\ forward_hooks' = {}
        /\ UNCHANGED <<visited, sample_idx, batch_idx, seq_lengths, fwd_i,
                       act_i, activations, experiment_metadata, dirs,
                       metadata_files, payload_files, io_log, hooks,
                       timestamp>>

C13_FailFast ==
    []C13_FailedStateIsFinal /\ [][C13_AfterFailureOnlyCleanup]_vars

C13_Witness ==
    /\ pc = "raised"
    /\ exc \in {"DataPreparationError", "RuntimeError", "OSError"}
    /\ removed = 2
    /\ Len(visited) = 2
    /\ sample_idx + batch_size < dataset_len

\* C14: while save_batch_activations runs for a batch, the buffer holds one
\* record per hooked layer, in the order the hooks fire, each captured from
\* that layer during this batch's forward pass; at no time does the buffer
\* hold a record captured at another dataset offset.
C14_NoCrossBatchContamination ==
    /\ \A k \in 1..Len(activations) :
           activations[k].output.offset = sample_idx
    /\ pc \in {"save", "torch_save"} =>
           /\ Len(activations) = Len(hooks)
           /\ \A k \in 1..Len(activations) :
                  /\ activations[k].name = hooks[k]
                  /\ activations[k].output.layer = hooks[k]
                  /\ activations[k].output.offset \div batch_size = batch_idx

C14_Witness ==
    /\ pc = "save"
    /\ act_i = 1
    /\ batch_idx = 2
    /\ Len(activations) = 2
    /\ activations[1].name # activations[2].name

\* the hook of module i has been invoked in the current forward pass
HookInvoked(i) ==
    /\ named_modules[i].name \in forward_hooks
    /\ \/ pc = "forward" /\ i < fwd_i
       \/ pc \in {"save", "torch_save"}
       \/ pc = "finally" /\ exc = "AttributeError" /\ i <= fwd_i

\* C15: after the hook of a layer that returns a tensor, a tuple or a list
\* has been invoked, the buffer holds a record with that layer's name and
\* the float32 CPU copy of the primary output (the tensor itself, or the
\* first element of the tuple or list).
C15_PrimaryOutputRecorded ==
    \A i \in 1..Len(named_modules) :
        (HookInvoked(i) /\ named_modules[i].out \in {"tensor", "tuple", "list"})
        => \E k \in 1..Len(activations) :
               activations[k] =
                   [name |-> named_modules[i].name,
                    output |-> ToFloat32DetachCpu(
                                   RawTensor(named_modules[i], sample_idx))]

\* C16: a destination that holds a payload file holds metadata.json, and
\* the metadata write came before every payload write to that destination.
C16_MetadataPrecedesPayload ==
    \A d \in dirs :
        /\ PayloadIdxs(d) # {} => d \in DOMAIN metadata_files
        /\ \A j \in LogIdxs("payload", d) :
               \E i \in LogIdxs("metadata", d) : i < j

C16_Witness ==
    /\ pc = "raised"
    /\ exc = "OSError"
    /\ batch_idx = 0
    /\ \E d, e \in DOMAIN metadata_files :
           /\ PayloadIdxs(d) = {0}
           /\ PayloadIdxs(e) = {}
           /\ metadata_files[e].complete

\* number of payload files in the destination of the h-th hooked layer
PayloadCount(h) == Cardinality(PayloadIdxs(<<hooks[h], timestamp>>))

\* C17: the destinations of a run never differ by more than one payload
\* file, a layer whose hook fires earlier never has fewer files than a later
\* one, and once the persistence step of a batch has completed all
\* destinations hold the same number of files.
C17_BoundedSkew ==
    /\ \A g, h \in 1..Len(hooks) :
           g < h => /\ PayloadCount(g) >= PayloadCount(h)
                    /\ PayloadCount(g) - PayloadCount(h) <= 1
    /\ (\/ pc \in {"for", "prepare", "forward", "done"}
        \/ pc = "save" /\ act_i > Len(activations))
       => \A g, h \in 1..Len(hooks) : PayloadCount(g) = PayloadCount(h)

C17_Witness ==
    /\ Len(hooks) = 2
    /\ PayloadCount(1) = 2
    /\ PayloadCount(2) = 1
    /\ pc = "raised"

====
